---- MODULE Spec2Model ----
(***************************************************************************)
(* scripts/evaluate_swebench_success_rate.py                               *)
(*                                                                         *)
(* A report text is a sequence of one-character strings.  The regular      *)
(* expression of get_metrics_from_summary is a sequence of items, matched  *)
(* the way Python's re matches it: leftmost start, every quantifier        *)
(* greedy, backtracking from the longest repetition down.  main is a       *)
(* process whose program counter names the source line it is about to     *)
(* execute; the summary file changes only between invocations.             *)
(***************************************************************************)
EXTENDS Integers, Sequences, FiniteSets, TLC

VARIABLES file, pc, experiment_dir, metrics, stdout, exit_status, reads, calls, prev

vars == <<file, pc, experiment_dir, metrics, stdout, exit_status, reads, calls, prev>>

(***************************************************************************)
(* Bounds of the model.                                                    *)
(***************************************************************************)
\* longest run of blanks written between the total and the rate
MaxGap == 2
\* most lines a report holds
MaxLines == 2

(***************************************************************************)
(* Characters.                                                             *)
(***************************************************************************)
\* the characters \s matches, among those the reports use
Whitespace == {" ", "\n"}

\* the characters \d matches, among those the reports use
Digit == {"0", "1", "2", "5", "7"}

DigitValue(c) ==
  CASE c = "0" -> 0 [] c = "1" -> 1 [] c = "2" -> 2 [] c = "5" -> 5 [] c = "7" -> 7

RECURSIVE Pow10(_)
Pow10(n) == IF n = 0 THEN 1 ELSE 10 * Pow10(n - 1)

(***************************************************************************)
(* The pattern of line 17:                                                 *)
(*   Resolved:\s*(\d+)\s*/\s*(\d+)\s*(\d+\.\d+)%                           *)
(* An item matches characters of `chars`, at least `min` of them, and      *)
(* more than one only when `many`.                                         *)
(***************************************************************************)
Lit(c) == [chars |-> {c}, min |-> 1, many |-> FALSE]
Star(S) == [chars |-> S, min |-> 0, many |-> TRUE]
Plus(S) == [chars |-> S, min |-> 1, many |-> TRUE]

\* every character of the reports
Alphabet == Whitespace \cup Digit \cup
            {"R", "e", "s", "o", "l", "v", "d", ":", "/", ".", "%", "n", "a", "x"}

Resolved == <<"R", "e", "s", "o", "l", "v", "e", "d", ":">>

ResolvedPrefix == [i \in 1..Len(Resolved) |-> Lit(Resolved[i])]

\* the pattern with the dot left unescaped
ResolvedPatternAnyDot ==
  ResolvedPrefix \o
  << Star(Whitespace), Plus(Digit), Star(Whitespace), Lit("/"), Star(Whitespace),
     Plus(Digit), Star(Whitespace),
     Plus(Digit), [chars |-> Alphabet \ {"\n"}, min |-> 1, many |-> FALSE],
     Plus(Digit), Lit("%") >>

\* the pattern with an optional fraction, \d+\.\d*
ResolvedPatternOptFraction ==
  ResolvedPrefix \o
  << Star(Whitespace), Plus(Digit), Star(Whitespace), Lit("/"), Star(Whitespace),
     Plus(Digit), Star(Whitespace),
     Plus(Digit), Lit("."), Star(Digit), Lit("%") >>

ResolvedPattern ==
  ResolvedPrefix \o
  << Star(Whitespace), Plus(Digit), Star(Whitespace), Lit("/"), Star(Whitespace),
     Plus(Digit), Star(Whitespace),
     Plus(Digit), Lit("."), Plus(Digit), Lit("%") >>

\* items of the three groups: group g spans items GroupFirst[g]..GroupLast[g]
GroupFirst == <<Len(Resolved) + 2, Len(Resolved) + 6, Len(Resolved) + 8>>
GroupLast == <<Len(Resolved) + 2, Len(Resolved) + 6, Len(Resolved) + 10>>

(***************************************************************************)
(* The matcher.  A match is the sequence of positions at which the items   *)
(* start, followed by the position after the match; NoMatch is the empty   *)
(* sequence.                                                               *)
(***************************************************************************)
NoMatch == <<>>

RECURSIVE RunLen(_, _, _)
RunLen(text, i, S) ==
  IF i <= Len(text) /\ text[i] \in S THEN 1 + RunLen(text, i + 1, S) ELSE 0

RECURSIVE MatchHere(_, _, _, _)
RECURSIVE TryRepeat(_, _, _, _, _)

\* item k repeated n times at i, then n - 1 times, ... down to its minimum
TryRepeat(pat, text, k, i, n) ==
  IF n < pat[k].min THEN NoMatch
  ELSE LET rest == MatchHere(pat, text, k + 1, i + n)
       IN IF rest # NoMatch THEN <<i>> \o rest
          ELSE TryRepeat(pat, text, k, i, n - 1)

\* items k.. of pat matched at position i of text
MatchHere(pat, text, k, i) ==
  IF k > Len(pat) THEN <<i>>
  ELSE LET avail == RunLen(text, i, pat[k].chars)
           most == IF pat[k].many \/ avail = 0 THEN avail ELSE 1
       IN TryRepeat(pat, text, k, i, most)

RECURSIVE SearchFrom(_, _, _)
SearchFrom(pat, text, s) ==
  IF s > Len(text) + 1 THEN NoMatch
  ELSE LET m == MatchHere(pat, text, 1, s)
       IN IF m # NoMatch THEN m ELSE SearchFrom(pat, text, s + 1)

RECURSIVE SearchBack(_, _, _)
SearchBack(pat, text, s) ==
  IF s < 1 THEN NoMatch
  ELSE LET m == MatchHere(pat, text, 1, s)
       IN IF m # NoMatch THEN m ELSE SearchBack(pat, text, s - 1)

\* a search that reports the last match of the text
re_search_last(pat, text) == SearchBack(pat, text, Len(text) + 1)

\* re.search: the match at the leftmost position that has one
re_search(pat, text) == SearchFrom(pat, text, 1)

\* match.group(g)
group(text, m, g) == SubSeq(text, m[GroupFirst[g]], m[GroupLast[g] + 1] - 1)

(***************************************************************************)
(* Conversions.                                                            *)
(***************************************************************************)
RECURSIVE int(_)
\* int(s) of a digit string
int(s) == IF s = <<>> THEN 0
          ELSE 10 * int(SubSeq(s, 1, Len(s) - 1)) + DigitValue(s[Len(s)])

RECURSIVE Normalize(_, _)
\* num / 10^scale without trailing zeros in the fraction
Normalize(num, scale) ==
  IF scale > 0 /\ num % 10 = 0 THEN Normalize(num \div 10, scale - 1)
  ELSE [num |-> num, scale |-> scale]

\* float(s) of a decimal numeral, digits "." digits or digits alone: the
\* number num / 10^scale
float(s) ==
  LET dots == {i \in 1..Len(s) : s[i] = "."}
      dot == IF dots = {} THEN Len(s) + 1 ELSE CHOOSE i \in dots : TRUE
      ip == SubSeq(s, 1, dot - 1)
      fp == SubSeq(s, dot + 1, Len(s))
  IN Normalize(int(ip) * Pow10(Len(fp)) + int(fp), Len(fp))

(***************************************************************************)
(* Formatting.                                                             *)
(***************************************************************************)
RECURSIVE PadDigits(_, _)
\* n in decimal, w digits wide
PadDigits(n, w) ==
  IF w = 0 THEN "" ELSE PadDigits(n \div 10, w - 1) \o ToString(n % 10)

\* f"{x:.2f}" of a number with at most two fractional digits
Fixed2(x) ==
  LET h == x.num * Pow10(2 - x.scale)
  IN ToString(h \div 100) \o "." \o PadDigits(h % 100, 2)

\* repr(x), as json.dumps writes a float
FloatRepr(x) ==
  ToString(x.num \div Pow10(x.scale)) \o "." \o
  (IF x.scale = 0 THEN "0" ELSE PadDigits(x.num % Pow10(x.scale), x.scale))

\* insertion order of the keys of metrics
KeyOrder == <<"resolved_count", "resolved_total", "success_rate">>

JsonValue(m, k) == IF k = "success_rate" THEN FloatRepr(m[k]) ELSE ToString(m[k])

RECURSIVE JsonItems(_, _)
JsonItems(m, ks) ==
  IF ks = <<>> THEN ""
  ELSE "\n  \"" \o Head(ks) \o "\": " \o JsonValue(m, Head(ks)) \o
       (IF Len(ks) > 1 THEN "," ELSE "") \o JsonItems(m, Tail(ks))

\* json.dumps(m, indent=2)
JsonDumps(m) ==
  LET ks == SelectSeq(KeyOrder, LAMBDA k : k \in DOMAIN m)
  IN IF ks = <<>> THEN "{}" ELSE "{" \o JsonItems(m, ks) \o "\n}"

\* str(Path(d) / "artifacts" / "summary_stats.md")
SummaryPath(d) == d \o "/artifacts/summary_stats.md"

(***************************************************************************)
(* get_metrics_from_summary, lines 10-28.                                  *)
(***************************************************************************)
EmptyMetrics == [k \in {} |-> 0]

Metrics(count, total, rate) ==
  [k \in {"resolved_count", "resolved_total", "success_rate"} |->
     CASE k = "resolved_count" -> count
       [] k = "resolved_total" -> total
       [] k = "success_rate" -> rate]

\* the total read from group 1
get_metrics_wrong_group(content) ==
  LET m == re_search(ResolvedPattern, content)
  IN IF m = NoMatch THEN EmptyMetrics
     ELSE Metrics(int(group(content, m, 1)), int(group(content, m, 1)),
                  float(group(content, m, 3)))

\* the counts stored only when they are not zero
get_metrics_skip_zero(content) ==
  LET m == re_search(ResolvedPattern, content)
      all == Metrics(int(group(content, m, 1)), int(group(content, m, 2)),
                     float(group(content, m, 3)))
  IN IF m = NoMatch THEN EmptyMetrics
     ELSE [k \in {k \in DOMAIN all : k = "success_rate" \/ all[k] # 0} |-> all[k]]

get_metrics_from_summary(content) ==
  LET m == re_search(ResolvedPattern, content)
  IN IF m = NoMatch THEN EmptyMetrics
     ELSE Metrics(int(group(content, m, 1)), int(group(content, m, 2)),
                  float(group(content, m, 3)))

(***************************************************************************)
(* The reports the evaluation may have written.                            *)
(***************************************************************************)
Blanks(n) == [i \in 1..n |-> " "]

Counts == {<<"0">>, <<"1", "0">>}
Totals == {<<"0">>, <<"2", "0">>}
RateInts == {<<"0">>, <<"5", "0">>, <<"1", "0", "0">>}
RateFractions == {<<"0">>, <<"0", "0">>, <<"2", "5">>}

\* a rate as written: with a fraction, with a bare point, with neither
RateFields ==
  {zi \o <<".">> \o zf : zi \in RateInts, zf \in RateFractions}
    \cup {zi \o <<".">> : zi \in RateInts} \cup RateInts

Gaps == {Blanks(n) : n \in 0..MaxGap} \cup {<<"\n">>}

\* "Resolved:" sp x sp "/" sp y gap r "%"
ResolvedLine(sp, x, y, gap, r) ==
  Resolved \o sp \o x \o sp \o <<"/">> \o sp \o y \o gap \o r \o <<"%">>

ResolvedLines ==
  {ResolvedLine(sp, x, y, gap, r) :
     sp \in {<<>>, <<" ">>}, x \in Counts, y \in Totals, gap \in Gaps, r \in RateFields}

NoData == <<"n", "o", " ", "d", "a", "t", "a">>

\* lines that lack the colon, the slash or the percent sign
BrokenLines ==
  { SubSeq(Resolved, 1, 8) \o <<" ", "1", "0", " ", "/", " ", "2", "0", " ", "5", "0", ".", "0", "%">>,
    Resolved \o <<" ", "1", "0", " ", "2", "0", " ", "5", "0", ".", "0", "%">>,
    Resolved \o <<" ", "1", "0", " ", "/", " ", "2", "0", " ", "5", "0", ".", "0">> }

FirstLines == ResolvedLines \cup BrokenLines \cup {NoData}

LaterLines == { ResolvedLine(<<" ">>, <<"7">>, <<"7">>, <<" ">>, <<"1", "0", "0", ".", "0">>),
                NoData }

RECURSIVE Reports(_)
\* the reports of at most n lines
Reports(n) ==
  IF n <= 1 THEN FirstLines
  ELSE Reports(n - 1) \cup
       {t \o <<"\n">> \o l : t \in Reports(n - 1), l \in LaterLines}

Texts == Reports(MaxLines)

\* the experiment directories main is given; the evaluation writes into "exp"
Dirs == {"exp", "gone"}

NoFile == [exists |-> FALSE, content |-> <<>>]

NoRun == [ran |-> FALSE, stdout |-> <<>>, exit_status |-> -1]

\* Path.exists
Exists(path) == file.exists /\ path = SummaryPath("exp")

(***************************************************************************)
(* The state machine.                                                      *)
(***************************************************************************)
Init ==
  /\ file = NoFile
  /\ pc = "idle"
  /\ experiment_dir = "exp"
  /\ metrics = EmptyMetrics
  /\ stdout = <<>>
  /\ exit_status = -1
  /\ reads = 0
  /\ calls = 0
  /\ prev = [d \in Dirs |-> NoRun]

Stopped == pc \in {"idle", "exited"}

Reset ==
  /\ pc' = "idle"
  /\ experiment_dir' = "exp"
  /\ metrics' = EmptyMetrics
  /\ stdout' = <<>>
  /\ exit_status' = -1
  /\ reads' = 0
  /\ calls' = 0
  /\ prev' = [d \in Dirs |-> NoRun]

\* the evaluation writes artifacts/summary_stats.md
WriteSummary ==
  /\ Stopped
  /\ ~file.exists
  /\ \E t \in Texts : file' = [exists |-> TRUE, content |-> t]
  /\ Reset

\* the file is removed
RemoveSummary ==
  /\ Stopped
  /\ file.exists
  /\ file' = NoFile
  /\ Reset

\* the script is started with --experiment-dir d
Invoke ==
  /\ Stopped
  /\ \E d \in Dirs : experiment_dir' = d
  /\ prev' = IF pc = "exited"
             THEN [prev EXCEPT ![experiment_dir] =
                     [ran |-> TRUE, stdout |-> stdout, exit_status |-> exit_status]]
             ELSE prev
  /\ pc' = "L38"
  /\ metrics' = EmptyMetrics
  /\ stdout' = <<>>
  /\ exit_status' = -1
  /\ reads' = 0
  /\ calls' = 0
  /\ UNCHANGED file

\* raise typer.Exit() without a code
CheckExistsExitZero ==
  /\ pc = "L38"
  /\ IF ~Exists(SummaryPath(experiment_dir))
     THEN /\ stdout' = Append(stdout, "Error: Summary file not found at "
                                        \o SummaryPath(experiment_dir))
          /\ exit_status' = 0
          /\ pc' = "exited"
     ELSE /\ pc' = "L43"
          /\ UNCHANGED <<stdout, exit_status>>
  /\ UNCHANGED <<file, experiment_dir, metrics, reads, calls, prev>>

\* lines 38-41
CheckExists ==
  /\ pc = "L38"
  /\ IF ~Exists(SummaryPath(experiment_dir))
     THEN /\ stdout' = Append(stdout, "Error: Summary file not found at "
                                        \o SummaryPath(experiment_dir))
          /\ exit_status' = 1
          /\ pc' = "exited"
     ELSE /\ pc' = "L43"
          /\ UNCHANGED <<stdout, exit_status>>
  /\ UNCHANGED <<file, experiment_dir, metrics, reads, calls, prev>>

\* the summary moved away once it is read
ExtractConsuming ==
  /\ pc = "L43"
  /\ calls' = calls + 1
  /\ reads' = reads + 1
  /\ metrics' = get_metrics_from_summary(file.content)
  /\ pc' = "L45"
  /\ file' = NoFile
  /\ UNCHANGED <<experiment_dir, stdout, exit_status, prev>>

\* line 43: the call, the read of line 15 and the extraction
Extract ==
  /\ pc = "L43"
  /\ calls' = calls + 1
  /\ reads' = reads + 1
  /\ metrics' = get_metrics_from_summary(file.content)
  /\ pc' = "L45"
  /\ UNCHANGED <<file, experiment_dir, stdout, exit_status, prev>>

\* the error never raised: `if metrics is None`
CheckMetricsNone ==
  /\ pc = "L45"
  /\ pc' = "L49"
  /\ UNCHANGED <<file, experiment_dir, metrics, stdout, exit_status, reads, calls, prev>>

\* a zero rate taken for an absent one: `if not metrics.get("success_rate")`
CheckMetricsFalsy ==
  /\ pc = "L45"
  /\ IF DOMAIN metrics = {} \/ metrics["success_rate"].num = 0
     THEN /\ stdout' = Append(stdout, "Error: Could not parse any metrics from "
                                        \o SummaryPath(experiment_dir))
          /\ exit_status' = 1
          /\ pc' = "exited"
     ELSE /\ pc' = "L49"
          /\ UNCHANGED <<stdout, exit_status>>
  /\ UNCHANGED <<file, experiment_dir, metrics, reads, calls, prev>>

\* lines 45-47
CheckMetrics ==
  /\ pc = "L45"
  /\ IF DOMAIN metrics = {}
     THEN /\ stdout' = Append(stdout, "Error: Could not parse any metrics from "
                                        \o SummaryPath(experiment_dir))
          /\ exit_status' = 1
          /\ pc' = "exited"
     ELSE /\ pc' = "L49"
          /\ UNCHANGED <<stdout, exit_status>>
  /\ UNCHANGED <<file, experiment_dir, metrics, reads, calls, prev>>

\* line 49
PrintHeader ==
  /\ pc = "L49"
  /\ stdout' = Append(stdout, "SWE-bench Evaluation Results:")
  /\ pc' = "L50"
  /\ UNCHANGED <<file, experiment_dir, metrics, exit_status, reads, calls, prev>>

\* the line of the f-string of line 51
SuccessRateLine(m) ==
  "  Success Rate: " \o Fixed2(m["success_rate"]) \o "% (" \o
  ToString(m["resolved_count"]) \o "/" \o ToString(m["resolved_total"]) \o ")"

\* the test of line 50 inverted
PrintRateInverted ==
  /\ pc = "L50"
  /\ pc' = "L54"
  /\ UNCHANGED <<file, experiment_dir, metrics, stdout, exit_status, reads, calls, prev>>

\* lines 50-51; a key missing from metrics is a KeyError, which ends the
\* process with a traceback on stderr and status 1
PrintRate ==
  /\ pc = "L50"
  /\ IF "success_rate" \in DOMAIN metrics
     THEN IF {"resolved_count", "resolved_total"} \subseteq DOMAIN metrics
          THEN /\ stdout' = Append(stdout, SuccessRateLine(metrics))
               /\ pc' = "L54"
               /\ UNCHANGED exit_status
          ELSE /\ exit_status' = 1
               /\ pc' = "exited"
               /\ UNCHANGED stdout
     ELSE /\ pc' = "L54"
          /\ UNCHANGED <<stdout, exit_status>>
  /\ UNCHANGED <<file, experiment_dir, metrics, reads, calls, prev>>

\* line 54
PrintJsonHeader ==
  /\ pc = "L54"
  /\ stdout' = Append(stdout, "\nMetrics (JSON):")
  /\ pc' = "L55"
  /\ UNCHANGED <<file, experiment_dir, metrics, exit_status, reads, calls, prev>>

\* line 55, and the return of main: the process ends with status 0
PrintJson ==
  /\ pc = "L55"
  /\ stdout' = Append(stdout, JsonDumps(metrics))
  /\ exit_status' = 0
  /\ pc' = "exited"
  /\ UNCHANGED <<file, experiment_dir, metrics, reads, calls, prev>>

Next ==
  \/ WriteSummary
  \/ RemoveSummary
  \/ Invoke
  \/ CheckExists
  \/ Extract
  \/ CheckMetrics
  \/ PrintHeader
  \/ PrintRate
  \/ PrintJsonHeader
  \/ PrintJson

Spec == Init /\ [][Next]_vars

(***************************************************************************)
(* The shape "Resolved: <int> / <int> <float>%" of the report's line, as a *)
(* grammar: the blanks of the shape stand for any run of whitespace, an    *)
(* <int> for one or more digits, a <float> for digits "." digits.  A parse *)
(* is one way of cutting a substring of the text into the segments of the  *)
(* shape: the positions where the segments start, then the position after  *)
(* the last.                                                               *)
(***************************************************************************)
Shape ==
  [i \in 1..Len(Resolved) |-> Lit(Resolved[i])] \o
  << Star(Whitespace), Plus(Digit), Star(Whitespace), Lit("/"), Star(Whitespace),
     Plus(Digit), Star(Whitespace), Plus(Digit), Lit("."), Plus(Digit), Lit("%") >>

\* the positions at which a segment that starts at a may end
SegmentEnds(seg, text, a) ==
  LET run == RunLen(text, a, seg.chars)
      most == IF seg.many \/ run = 0 THEN run ELSE 1
  IN (a + seg.min)..(a + most)

RECURSIVE ParsesFrom(_, _, _)
ParsesFrom(text, k, S) ==
  IF k > Len(Shape) \/ S = {} THEN S
  ELSE ParsesFrom(text, k + 1,
         UNION { { Append(b, q) : q \in SegmentEnds(Shape[k], text, b[Len(b)]) } : b \in S })

Parses(text) == ParsesFrom(text, 1, {<<p>> : p \in 1..(Len(text) + 1)})

\* the digits X, Y and Z of a parse, and the whitespace between Y and Z
ShapeX(text, b) == SubSeq(text, b[Len(Resolved) + 2], b[Len(Resolved) + 3] - 1)
ShapeY(text, b) == SubSeq(text, b[Len(Resolved) + 6], b[Len(Resolved) + 7] - 1)
ShapeZ(text, b) == SubSeq(text, b[Len(Resolved) + 8], b[Len(Resolved) + 11] - 1)
ShapeGap(b) == b[Len(Resolved) + 8] - b[Len(Resolved) + 7]

ShapeMetrics(text, b) ==
  Metrics(int(ShapeX(text, b)), int(ShapeY(text, b)), float(ShapeZ(text, b)))

\* the parses of the leftmost line of the shape
FirstParses(text) ==
  LET P == Parses(text)
  IN {b \in P : \A c \in P : b[1] <= c[1]}

\* get_metrics_from_summary has been called in this invocation
Extracted == calls = 1

\* get_metrics_from_summary has just returned its mapping to line 43
Returned == pc = "L45" /\ calls = 1

ScenarioA == <<"R", "e", "s", "o", "l", "v", "e", "d", ":", " ", "1", "0", " ", "/", " ",
               "2", "0", " ", "5", "0", ".", "0", "0", "%">>

ScenarioD == <<"R", "e", "s", "o", "l", "v", "e", "d", ":", " ", "0", " ", "/", " ",
               "0", " ", "0", ".", "0", "0", "%">>

AllKeys == {"resolved_count", "resolved_total", "success_rate"}

NotFoundLine(d) == "Error: Summary file not found at " \o d \o "/artifacts/summary_stats.md"
NoMetricsLine(d) == "Error: Could not parse any metrics from " \o d \o "/artifacts/summary_stats.md"

(***************************************************************************)
(* C1                                                                      *)
(***************************************************************************)
\* C1 as stated: whenever the text holds a line "Resolved: X / Y Z%" (the
\* leftmost one when it holds several), with any whitespace or none between Y
\* and Z, the mapping returned is resolved_count = X, resolved_total = Y,
\* success_rate = Z.
C1_AnyGap ==
  Returned =>
    \A b \in FirstParses(file.content) : metrics = ShapeMetrics(file.content, b)

\* C1 amended: the same, for the lines in which at least one whitespace
\* character separates Y from Z.
C1_Separated ==
  Returned =>
    \A b \in FirstParses(file.content) :
      ShapeGap(b) >= 1 => metrics = ShapeMetrics(file.content, b)

C1_Witness ==
  /\ pc = "exited"
  /\ file.content = ScenarioA
  /\ metrics = Metrics(10, 20, [num |-> 50, scale |-> 0])
  /\ stdout[2] = "  Success Rate: 50.00% (10/20)"

(***************************************************************************)
(* C2                                                                      *)
(***************************************************************************)
\* C2: a text with no substring of the shape gives the empty mapping, and
\* the extraction returns (main goes on to line 45).
C2_NoShapeNoMetrics ==
  (Returned /\ Parses(file.content) = {}) => DOMAIN metrics = {}

C2_Witness ==
  /\ Returned
  /\ file.content \in BrokenLines
  /\ Parses(file.content) = {}
  /\ DOMAIN metrics = {}

(***************************************************************************)
(* C3                                                                      *)
(***************************************************************************)
\* C3: with no summary file at the path, main prints the not-found error
\* and exits with status 1, and in that invocation the file is not read,
\* the extractor is not called and nothing else is printed.
C3_MissingFile ==
  (pc \notin {"idle", "L38"} /\ ~Exists(SummaryPath(experiment_dir))) =>
    /\ pc = "exited"
    /\ stdout = <<NotFoundLine(experiment_dir)>>
    /\ exit_status = 1
    /\ reads = 0
    /\ calls = 0

C3_Witness ==
  /\ pc = "exited"
  /\ experiment_dir = "exp"
  /\ ~file.exists
  /\ stdout = <<"Error: Summary file not found at exp/artifacts/summary_stats.md">>
  /\ exit_status = 1

(***************************************************************************)
(* C4                                                                      *)
(***************************************************************************)
\* C4: when the file exists and the extractor returned the empty mapping,
\* main prints the could-not-parse error and exits with status 1; the
\* results header, the Success Rate line and the JSON block are not printed.
C4_NoMetrics ==
  (Extracted /\ DOMAIN metrics = {}) =>
    /\ pc \in {"L45", "exited"}
    /\ pc = "L45" => stdout = <<>>
    /\ pc = "exited" => /\ stdout = <<NoMetricsLine(experiment_dir)>>
                        /\ exit_status = 1

C4_Witness ==
  /\ pc = "exited"
  /\ file.content = NoData
  /\ Extracted
  /\ stdout = <<"Error: Could not parse any metrics from exp/artifacts/summary_stats.md">>
  /\ exit_status = 1

(***************************************************************************)
(* C5                                                                      *)
(***************************************************************************)
\* what the success path prints, in order
SuccessOutput(m) ==
  <<"SWE-bench Evaluation Results:">> \o
  (IF "success_rate" \in DOMAIN m THEN <<SuccessRateLine(m)>> ELSE <<>>) \o
  <<"\nMetrics (JSON):", JsonDumps(m)>>

IsPrefix(s, t) == Len(s) <= Len(t) /\ s = SubSeq(t, 1, Len(s))

\* C5: when the file exists and the mapping is not empty, main prints the
\* results header, the Success Rate line exactly when success_rate is in the
\* mapping, the JSON header and the JSON of the mapping, in this order, and
\* ends with status 0; status 0 is reached in no other case.
C5_SuccessPath ==
  /\ (Extracted /\ DOMAIN metrics # {} /\ pc # "L45") =>
       /\ IsPrefix(stdout, SuccessOutput(metrics))
       /\ pc = "exited" => (stdout = SuccessOutput(metrics) /\ exit_status = 0)
  /\ (pc = "exited" /\ exit_status = 0) =>
       /\ Exists(SummaryPath(experiment_dir))
       /\ Extracted
       /\ DOMAIN metrics # {}

C5_Witness ==
  /\ pc = "exited"
  /\ exit_status = 0
  /\ file.content = ScenarioA
  /\ stdout = << "SWE-bench Evaluation Results:",
                 "  Success Rate: 50.00% (10/20)",
                 "\nMetrics (JSON):",
                 "{\n  \"resolved_count\": 10,\n  \"resolved_total\": 20,\n  \"success_rate\": 50.0\n}" >>

(***************************************************************************)
(* C6                                                                      *)
(***************************************************************************)
Starts(text) == {b[1] : b \in Parses(text)}

\* C6: when several places of the text match the shape, the three keys are
\* those of the leftmost one.
C6_FirstMatchWins ==
  (Returned /\ Cardinality(Starts(file.content)) >= 2) =>
    \E b \in FirstParses(file.content) : metrics = ShapeMetrics(file.content, b)

C6_Witness ==
  /\ Returned
  /\ file.content =
       ScenarioA \o <<"\n">> \o
       <<"R", "e", "s", "o", "l", "v", "e", "d", ":", " ", "7", " ", "/", " ", "7", " ",
         "1", "0", "0", ".", "0", "%">>
  /\ Cardinality(Starts(file.content)) = 2
  /\ metrics = Metrics(10, 20, [num |-> 50, scale |-> 0])

(***************************************************************************)
(* C7                                                                      *)
(***************************************************************************)
\* C7: the could-not-parse error is printed exactly when the mapping has no
\* key, whatever the values; "Resolved: 0 / 0 0.00%" gives the three keys
\* with value zero, printed, with status 0.
C7_ZeroIsFound ==
  (pc = "exited" /\ Extracted) =>
    /\ (stdout = <<NoMetricsLine(experiment_dir)>>) <=> (DOMAIN metrics = {})
    /\ file.content = ScenarioD =>
         /\ metrics = Metrics(0, 0, [num |-> 0, scale |-> 0])
         /\ exit_status = 0
         /\ stdout = << "SWE-bench Evaluation Results:",
                        "  Success Rate: 0.00% (0/0)",
                        "\nMetrics (JSON):",
                        "{\n  \"resolved_count\": 0,\n  \"resolved_total\": 0,\n  \"success_rate\": 0.0\n}" >>

C7_Witness ==
  /\ pc = "exited"
  /\ file.content = ScenarioD
  /\ exit_status = 0
  /\ metrics["success_rate"].num = 0

(***************************************************************************)
(* C8                                                                      *)
(***************************************************************************)
\* the rate has a decimal point followed by at least one digit
HasFraction(r) == \E i \in 1..(Len(r) - 1) : r[i] = "." /\ r[i + 1] \in Digit

C9_SameOutcome ==
  (pc = "exited" /\ prev[experiment_dir].ran) =>
    /\ stdout = prev[experiment_dir].stdout
    /\ exit_status = prev[experiment_dir].exit_status

C9_Idempotent == [](C9_SameOutcome) /\ [][~Stopped => file' = file]_vars

C9_Witness ==
  /\ pc = "exited"
  /\ prev["exp"].ran
  /\ experiment_dir = "exp"
  /\ file.content = ScenarioA
  /\ exit_status = 0
  /\ Len(stdout) = 4

(***************************************************************************)
(* C10                                                                     *)
(***************************************************************************)
\* C10: the mapping holds the three keys or none of them, and main never
\* ends on a missing key: past line 51 the Success Rate line is printed
\* whenever success_rate is in the mapping.
C10_AllOrNone ==
  /\ DOMAIN metrics \in {{}, AllKeys}
  /\ (pc \in {"L54", "L55", "exited"} /\ "success_rate" \in DOMAIN metrics) =>
       /\ Len(stdout) >= 2
       /\ stdout[2] = SuccessRateLine(metrics)

C10_Witness ==
  /\ pc = "L54"
  /\ DOMAIN metrics = AllKeys
  /\ Len(stdout) = 2
  /\ stdout[2] = "  Success Rate: 100.00% (0/20)"

====
